---- MODULE Spec2Model ----
\* Model of the dependency-injection container of the PARA plugin
\* (plugin/src/core/ServiceContainer.ts) and of the callers that drive it.
EXTENDS Integers, Sequences, FiniteSets, TLC

\* ------------------------------------------------------------------ bounds
\* Largest number of instances constructed in one behaviour.
MaxInst == 3
\* Longest dependency list a registration is given.
MaxDeps == 2
\* Largest number of instances constructed in a behaviour of the plugin.
MaxReloaded == 90

\* ------------------------------------------------------------------ inputs
Keys == {"A", "B"}

\* null, as opposed to every string (the empty one included)
NoScope == "<null>"
ScopeIds == {"", "s1", "s2"}

\* undefined
None == "<undefined>"

Lifecycles == {"singleton", "transient", "scoped"}

\* Functions handed to register as factory: "f1" and "f2" build an object,
\* "fThrow" throws.  Values handed as implementation: "I1" is a class,
\* "IThrow" a class whose constructor throws, "arrow" an arrow function,
\* "fnThrow" a plain function that throws, "notfn" a value that is no function.
\* The classes that registerServices registers as implementation, and the
\* two factories it writes around settings: each is named with the value of
\* the setting that it reads.
ServiceClasses ==
    {"PropertiesService", "TagService", "FileService", "LinkService",
     "SearchService", "TemplateService", "ProjectService", "AreasService",
     "SecretsManager", "IntegrationManager", "AIProviderManager",
     "PromptService", "AIService", "MCPServer"}
ProjectFactory(settings) ==
    IF settings.maxActiveProjects = 1 THEN "new ProjectService(.., 1)"
    ELSE IF settings.maxActiveProjects = 3 THEN "new ProjectService(.., 3)"
    ELSE "new ProjectService(.., 5)"
MCPFactory(settings) ==
    IF settings.organizationMode = "folder" THEN "setOrganizationMode(folder)"
    ELSE IF settings.organizationMode = "property" THEN "setOrganizationMode(property)"
    ELSE "setOrganizationMode(hybrid)"
SettingsFactories ==
    {"new ProjectService(.., 1)", "new ProjectService(.., 3)",
     "new ProjectService(.., 5)", "setOrganizationMode(folder)",
     "setOrganizationMode(property)", "setOrganizationMode(hybrid)"}

\* the functions and classes that return a new object when called
Builders == {"f1", "f2", "I1", "arrow"} \cup ServiceClasses \cup SettingsFactories

\* () => app and () => para: factories that hand out an object made elsewhere
Givens == {"() => app", "() => para"}

\* every sequence over S of length at most n
RECURSIVE SeqsUpTo(_, _)
SeqsUpTo(S, n) ==
    IF n = 0 THEN {<<>>}
    ELSE LET shorter == SeqsUpTo(S, n - 1)
         IN shorter \cup {Append(s, x) : s \in shorter, x \in S}

\* the ServiceRegistration object literal handed to register
Reg(l, d, f, i) ==
    [lifecycle |-> l, dependencies |-> d, factory |-> f, implementation |-> i]

\* ------------------------------------------------------------------ values
NoInst == [id |-> 0, key |-> "", by |-> "", deps |-> <<>>]
NoErr == [kind |-> "", key |-> ""]
\* the objects handed to the PluginManager: plugin.app and para
Given(factory) ==
    IF factory = "() => app"
    THEN [id |-> -1, key |-> "app", by |-> factory, deps |-> <<>>]
    ELSE [id |-> -2, key |-> "para", by |-> factory, deps |-> <<>>]
NotGiven == [id |-> 0, scope |-> ""]

ErrNotRegistered(key) == [kind |-> "NotRegistered", key |-> key]
\* ErrCircular reporting the key as not registered
ErrCircularAsMissing(key) == [kind |-> "NotRegistered", key |-> key]
ErrCircular(key) == [kind |-> "Circular", key |-> key]
\* ErrInvalid without the key
ErrInvalidUnnamed(key) == [kind |-> "Invalid", key |-> ""]
ErrInvalid(key) == [kind |-> "Invalid", key |-> key]
\* what a factory or a constructor throws: the container adds nothing to it
ErrThrown(by) == [kind |-> "Thrown", key |-> by]
\* calling a class without new
ErrTypeError(by) == [kind |-> "TypeError", key |-> by]

EmptyMap == <<>>

\* no PluginManager has been constructed
NoManager == [made |-> FALSE, settings |-> None, held |-> <<>>]

Put(m, k, v) == [x \in DOMAIN m \cup {k} |-> IF x = k THEN v ELSE m[x]]
Del(m, k) == [x \in DOMAIN m \ {k} |-> m[x]]

\* ------------------------------------------------------------------ state
VARIABLES
    services,         \* Map<string, ServiceRegistration>
    singletons,       \* Map<string, any>
    scopedInstances,  \* Map<string, Map<string, any>>
    currentScope,     \* string | null
    resolving,        \* Set<string>
    nextId,           \* identity of the next object a construction creates
    built,            \* per key, the instances constructed for it as a
                      \* singleton since the last clear()
    given,            \* per key, the instance its latest successful resolve
                      \* returned since it was registered, and the scope then
    opened,           \* the scope id the caller began and has not ended
    dropped,          \* the singleton instances (key, identity) that the
                      \* last clear() dropped
    manager,          \* the PluginManager: its settings and service fields
    lastOp,           \* the call made last
    lastRes,          \* what it returned or threw
    log               \* what the last call did, in order

vars == <<services, singletons, scopedInstances, currentScope, resolving,
          nextId, built, given, opened, dropped, manager, lastOp, lastRes, log>>

\* the container's fields as one value, threaded through the recursion
Container ==
    [services |-> services, singletons |-> singletons,
     scopedInstances |-> scopedInstances, currentScope |-> currentScope,
     resolving |-> resolving, nextId |-> nextId, log |-> <<>>]

\* a JavaScript string is truthy unless it is empty; null is falsy
Truthy(scope) == scope # NoScope /\ scope # ""

\* ------------------------------------------------------------------ register
\* { lifecycle: 'singleton', ...registration }
RegisterEntry(registration) ==
    [lifecycle |-> IF registration.lifecycle = None THEN "singleton"
                   ELSE registration.lifecycle,
     dependencies |-> registration.dependencies,
     factory |-> registration.factory,
     implementation |-> registration.implementation]

\* ------------------------------------------------------------------ resolve
Ok(c, inst) == [c |-> c, ok |-> TRUE, inst |-> inst, err |-> NoErr]
Fail(c, err) == [c |-> c, ok |-> FALSE, inst |-> NoInst, err |-> err]

Logged(c, ev) == [c EXCEPT !.log = Append(@, ev)]

\* this.scopedInstances.get(this.currentScope) || new Map()
ScopeInstances(c) ==
    IF c.currentScope \in DOMAIN c.scopedInstances
    THEN c.scopedInstances[c.currentScope]
    ELSE EmptyMap

\* HasCached without its singleton branch
HasCachedScopedOnly(c, key, registration) ==
    /\ registration.lifecycle = "scoped"
    /\ Truthy(c.currentScope) /\ key \in DOMAIN ScopeInstances(c)

\* HasCached taking a cached singleton only when the registered factory built it
HasCachedSameFactory(c, key, registration) ==
    IF registration.lifecycle = "singleton"
    THEN key \in DOMAIN c.singletons /\ c.singletons[key].by = registration.factory
    ELSE IF registration.lifecycle = "scoped"
    THEN Truthy(c.currentScope) /\ key \in DOMAIN ScopeInstances(c)
    ELSE FALSE

\* HasCached taking a cached singleton only while every key of the
\* dependency list is registered and is not the key itself
HasCachedChecked(c, key, registration) ==
    IF registration.lifecycle = "singleton"
    THEN /\ key \in DOMAIN c.singletons
         /\ \A i \in DOMAIN registration.dependencies :
               /\ registration.dependencies[i] \in DOMAIN c.services
               /\ registration.dependencies[i] # key
    ELSE IF registration.lifecycle = "scoped"
    THEN Truthy(c.currentScope) /\ key \in DOMAIN ScopeInstances(c)
    ELSE FALSE

\* "check if already resolved": is there an instance to return at once
HasCached(c, key, registration) ==
    IF registration.lifecycle = "singleton"
    THEN key \in DOMAIN c.singletons
    ELSE IF registration.lifecycle = "scoped"
    THEN Truthy(c.currentScope) /\ key \in DOMAIN ScopeInstances(c)
    ELSE FALSE

\* Cached handing out a singleton with the dependencies the current scope
\* now holds in place of those it was constructed with
CachedRebound(c, key, registration) ==
    IF registration.lifecycle = "singleton"
    THEN [c.singletons[key] EXCEPT
             !.deps = [i \in DOMAIN @ |->
                          IF @[i].key \in DOMAIN ScopeInstances(c)
                          THEN [id |-> ScopeInstances(c)[@[i].key].id,
                                key |-> @[i].key,
                                by |-> ScopeInstances(c)[@[i].key].by]
                          ELSE @[i]]]
    ELSE ScopeInstances(c)[key]

\* the instance found by the check above
Cached(c, key, registration) ==
    IF registration.lifecycle = "singleton"
    THEN c.singletons[key]
    ELSE ScopeInstances(c)[key]

\* the reference to a dependency that a constructed object keeps
Ref(inst) == [id |-> inst.id, key |-> inst.key, by |-> inst.by]

\* CreateInstance trying the implementation first and the factory only when
\* there is no implementation
CreateInstanceImplementationFirst(c, key, registration, dependencies) ==
    LET called(by) == Logged(c, [e |-> "invoke", key |-> key, by |-> by])
        made(by) ==
            Ok([called(by) EXCEPT !.nextId = @ + 1],
               [id |-> c.nextId, key |-> key, by |-> by,
                deps |-> [i \in DOMAIN dependencies |-> Ref(dependencies[i])]])
        factory == registration.factory
        implementation == registration.implementation
    IN IF implementation \in Builders
       THEN made(implementation)
       ELSE IF implementation = "IThrow"
       THEN Fail(called(implementation), ErrTypeError(implementation))
       ELSE IF implementation = "fnThrow"
       THEN Fail(Logged(called(implementation),
                        [e |-> "invoke", key |-> key, by |-> implementation]),
                 ErrThrown(implementation))
       ELSE IF factory = None
       THEN Fail(c, ErrInvalid(key))
       ELSE IF factory \in Givens
       THEN Ok(called(factory), Given(factory))
       ELSE IF factory \in Builders
       THEN made(factory)
       ELSE Fail(called(factory), ErrThrown(factory))

\* "Create instance": the factory when there is one; otherwise the
\* implementation as a constructor and, when that throws, as a plain function
CreateInstance(c, key, registration, dependencies) ==
    LET called(by) == Logged(c, [e |-> "invoke", key |-> key, by |-> by])
        made(by) ==
            Ok([called(by) EXCEPT !.nextId = @ + 1],
               [id |-> c.nextId, key |-> key, by |-> by,
                deps |-> [i \in DOMAIN dependencies |-> Ref(dependencies[i])]])
        factory == registration.factory
        implementation == registration.implementation
    IN IF factory # None
       THEN IF factory \in Givens
            THEN Ok(called(factory), Given(factory))
            ELSE IF factory \in Builders
            THEN made(factory)
            ELSE Fail(called(factory), ErrThrown(factory))
       ELSE IF implementation \in Builders
       THEN \* new succeeds; or new fails without a call and the plain call succeeds
            made(implementation)
       ELSE IF implementation = "IThrow"
       THEN \* the constructor throws, then the class is called without new
            Fail(called(implementation), ErrTypeError(implementation))
       ELSE IF implementation = "fnThrow"
       THEN \* the function throws under new and throws again when called
            Fail(Logged(called(implementation),
                        [e |-> "invoke", key |-> key, by |-> implementation]),
                 ErrThrown(implementation))
       ELSE Fail(c, ErrInvalid(key))

\* StoreInstance keeping every instance that is not scoped as a singleton
StoreInstanceAlways(c, key, registration, inst) ==
    IF registration.lifecycle = "scoped" /\ Truthy(c.currentScope)
    THEN [c EXCEPT !.scopedInstances =
                Put(@, c.currentScope, Put(ScopeInstances(c), key, inst))]
    ELSE [c EXCEPT !.singletons = Put(@, key, inst)]

\* StoreInstance keeping a scoped instance built outside a scope as a singleton
StoreInstanceUnscoped(c, key, registration, inst) ==
    IF registration.lifecycle = "singleton"
       \/ (registration.lifecycle = "scoped" /\ ~Truthy(c.currentScope))
    THEN [c EXCEPT !.singletons = Put(@, key, inst)]
    ELSE IF registration.lifecycle = "scoped"
    THEN [c EXCEPT !.scopedInstances =
                Put(@, c.currentScope, Put(ScopeInstances(c), key, inst))]
    ELSE c

\* "Store instance based on lifecycle"
StoreInstance(c, key, registration, inst) ==
    IF registration.lifecycle = "singleton"
    THEN [c EXCEPT !.singletons = Put(@, key, inst)]
    ELSE IF registration.lifecycle = "scoped" /\ Truthy(c.currentScope)
    THEN [c EXCEPT !.scopedInstances =
                Put(@, c.currentScope, Put(ScopeInstances(c), key, inst))]
    ELSE c

\* "Mark as resolving"
MarkResolving(c, key) == [c EXCEPT !.resolving = @ \cup {key}]

\* Release only when the resolution succeeded
ReleaseOnSuccess(r, key) == IF r.ok THEN [r EXCEPT !.c.resolving = @ \ {key}] ELSE r

\* The key left marked as being resolved once its resolution is over
ReleaseSkipped(r, key) == r

\* finally { this.resolving.delete(key) }
Release(r, key) == [r EXCEPT !.c.resolving = @ \ {key}]

\* NotRegistered leaving the key marked as being resolved
NotRegisteredMarked(c, key) == Fail(MarkResolving(c, key), ErrNotRegistered(key))

\* if (!registration) throw ...
NotRegistered(c, key) == Fail(c, ErrNotRegistered(key))

RECURSIVE Resolve(_, _)
RECURSIVE ResolveDependencies(_, _)

\* resolve(key): the result and the container it leaves
Resolve(c, key) ==
    LET entered == Logged(c, [e |-> "enter", key |-> key, by |-> ""])
    IN IF key \notin DOMAIN c.services
       THEN NotRegistered(entered, key)
       ELSE IF key \in c.resolving
       THEN Fail(entered, ErrCircular(key))
       ELSE LET registration == c.services[key]
            IN IF HasCached(c, key, registration)
               THEN Ok(entered, Cached(c, key, registration))
               ELSE LET d == ResolveDependencies(MarkResolving(entered, key),
                                                 registration.dependencies)
                        made == CreateInstance(d.c, key, registration, d.insts)
                    IN Release(
                         IF ~d.ok THEN Fail(d.c, d.err)
                         ELSE IF ~made.ok THEN made
                         ELSE Ok(StoreInstance(made.c, key, registration, made.inst),
                                 made.inst),
                         key)

\* ResolveDependencies resolving every key of the list and then reporting
\* the first failure
RECURSIVE ResolveDependenciesAll(_, _)
ResolveDependenciesAll(c, dependencyKeys) ==
    IF dependencyKeys = <<>>
    THEN [c |-> c, ok |-> TRUE, insts |-> <<>>, err |-> NoErr]
    ELSE LET first == Resolve(c, Head(dependencyKeys))
             rest == ResolveDependenciesAll(first.c, Tail(dependencyKeys))
         IN IF ~first.ok
            THEN [c |-> rest.c, ok |-> FALSE, insts |-> <<>>, err |-> first.err]
            ELSE [rest EXCEPT !.insts = <<first.inst>> \o @]

\* ResolveDependencies resolving the last key of the list first
RECURSIVE ResolveDependenciesReversed(_, _)
ResolveDependenciesReversed(c, dependencyKeys) ==
    IF dependencyKeys = <<>>
    THEN [c |-> c, ok |-> TRUE, insts |-> <<>>, err |-> NoErr]
    ELSE LET rest == ResolveDependenciesReversed(c, Tail(dependencyKeys))
             first == Resolve(rest.c, Head(dependencyKeys))
         IN IF ~rest.ok THEN rest
            ELSE IF ~first.ok
            THEN [c |-> first.c, ok |-> FALSE, insts |-> <<>>, err |-> first.err]
            ELSE [c |-> first.c, ok |-> TRUE, insts |-> <<first.inst>> \o rest.insts,
                  err |-> NoErr]

\* dependencyKeys.map(key => this.resolve(key)): in order, stopping at the
\* first one that throws
ResolveDependencies(c, dependencyKeys) ==
    IF dependencyKeys = <<>>
    THEN [c |-> c, ok |-> TRUE, insts |-> <<>>, err |-> NoErr]
    ELSE LET first == Resolve(c, Head(dependencyKeys))
         IN IF ~first.ok
            THEN [c |-> first.c, ok |-> FALSE, insts |-> <<>>, err |-> first.err]
            ELSE LET rest == ResolveDependencies(first.c, Tail(dependencyKeys))
                 IN [rest EXCEPT !.insts = <<first.inst>> \o @]

\* ------------------------------------------------------------------ ServiceFactory
\* createWithDependencies returning the instance the container would resolve
CreateWithDependenciesResolved(c, key, dependencies) == Resolve(c, key)

\* ServiceFactory.createWithDependencies(key, dependencies): the entry is
\* read from the container's registry and the instance is built from the
\* list handed in
CreateWithDependencies(c, key, dependencies) ==
    IF key \notin DOMAIN c.services
    THEN Fail(c, ErrNotRegistered(key))
    ELSE LET registration == c.services[key]
             factory == registration.factory
             implementation == registration.implementation
             called(by) == Logged(c, [e |-> "invoke", key |-> key, by |-> by])
             made(by) ==
                 Ok([called(by) EXCEPT !.nextId = @ + 1],
                    [id |-> c.nextId, key |-> key, by |-> by,
                     deps |-> [i \in DOMAIN dependencies |-> Ref(dependencies[i])]])
         IN IF factory # None
            THEN IF factory \in Givens
                 THEN Ok(called(factory), Given(factory))
                 ELSE IF factory \in Builders
                 THEN made(factory)
                 ELSE Fail(called(factory), ErrThrown(factory))
            ELSE IF implementation \in Builders
            THEN made(implementation)
            ELSE IF implementation = "IThrow"
            THEN Fail(called(implementation), ErrTypeError(implementation))
            ELSE IF implementation = "fnThrow"
            THEN Fail(Logged(called(implementation),
                             [e |-> "invoke", key |-> key, by |-> implementation]),
                      ErrThrown(implementation))
            ELSE Fail(c, ErrInvalid(key))

\* ------------------------------------------------------------------ bootstrap
\* getDefaultSettings()
DefaultSettings == [organizationMode |-> "hybrid", maxActiveProjects |-> 3]

\* what plugin.loadData() returns: an object with some of the fields, or
\* with none of them (as null is spread)
LoadedData ==
    {[organizationMode |-> m, maxActiveProjects |-> n] :
        m \in {"folder", "property", "hybrid"}, n \in {1, 5}}
    \cup {[organizationMode |-> m] : m \in {"folder", "property", "hybrid"}}
    \cup {[maxActiveProjects |-> n] : n \in {1, 5}}
    \cup {[field \in {} |-> None]}

\* { ...this.getDefaultSettings(), ...loadedData }
Merged(defaults, loadedData) ==
    [field \in DOMAIN defaults |->
        IF field \in DOMAIN loadedData THEN loadedData[field] ELSE defaults[field]]

\* the register calls of registerServices, in order
Bootstrap(settings) ==
    << <<"App", Reg("singleton", <<>>, "() => app", None)>>,
       <<"PARA", Reg("singleton", <<>>, "() => para", None)>>,
       <<"IPropertiesService", Reg("singleton", <<"App">>, None, "PropertiesService")>>,
       <<"ITagService", Reg("singleton", <<"App">>, None, "TagService")>>,
       <<"IFileService",
         Reg("singleton", <<"App", "PARA", "IPropertiesService", "ITagService">>,
             None, "FileService")>>,
       <<"ILinkService", Reg("singleton", <<"App", "IFileService">>, None, "LinkService")>>,
       <<"ISearchService",
         Reg("singleton", <<"App", "IFileService", "IPropertiesService", "ITagService">>,
             None, "SearchService")>>,
       <<"ITemplateService", Reg("singleton", <<"App">>, None, "TemplateService")>>,
       <<"IProjectService",
         Reg("singleton",
             <<"App", "PARA", "IFileService", "IPropertiesService", "ITagService",
               "ITemplateService">>,
             ProjectFactory(settings), "ProjectService")>>,
       <<"IAreasService",
         Reg("singleton",
             <<"App", "PARA", "IFileService", "IPropertiesService", "ITagService",
               "ITemplateService", "IProjectService">>,
             None, "AreasService")>>,
       <<"SecretsManager", Reg("singleton", <<"App">>, None, "SecretsManager")>>,
       <<"IntegrationManager", Reg("singleton", <<>>, None, "IntegrationManager")>>,
       <<"AIProviderManager",
         Reg("singleton", <<"App", "IntegrationManager", "SecretsManager">>,
             None, "AIProviderManager")>>,
       <<"PromptService", Reg("singleton", <<"App", "IFileService">>, None, "PromptService")>>,
       <<"IAIService",
         Reg("singleton",
             <<"App", "AIProviderManager", "PromptService", "IFileService",
               "IProjectService", "ISearchService">>,
             None, "AIService")>>,
       <<"MCPServer",
         Reg("singleton", <<"App", "ISearchService", "IFileService">>,
             MCPFactory(settings), "MCPServer")>> >>

BootKeys == {Bootstrap(DefaultSettings)[i][1] : i \in DOMAIN Bootstrap(DefaultSettings)}

\* container.register(key, registration) on the container value
RegisterIn(c, key, registration) ==
    [c EXCEPT !.services = Put(@, key, RegisterEntry(registration))]

RECURSIVE RegisterAll(_, _)
RegisterAll(c, entries) ==
    IF entries = <<>> THEN c
    ELSE RegisterAll(RegisterIn(c, Head(entries)[1], Head(entries)[2]), Tail(entries))

\* RegisterServices leaving out the entry of IFileService
RegisterServicesWithoutFileService(c, settings) ==
    RegisterAll(c, SelectSeq(Bootstrap(settings), LAMBDA entry : entry[1] # "IFileService"))

\* registerServices(container, app, para, settings)
RegisterServices(c, settings) == RegisterAll(c, Bootstrap(settings))

\* container.clear() on the container value
ClearIn(c) ==
    [c EXCEPT !.services = EmptyMap, !.singletons = EmptyMap,
              !.scopedInstances = EmptyMap, !.resolving = {}]

\* this.x = this.container.resolve(..) for each key in turn, up to the first
\* one that throws: the instances assigned, and the error if there is one
RECURSIVE ResolveEach(_, _)
ResolveEach(c, keys) ==
    IF keys = <<>>
    THEN [c |-> c, ok |-> TRUE, insts |-> <<>>, err |-> NoErr]
    ELSE LET first == Resolve(c, Head(keys))
         IN IF ~first.ok
            THEN [c |-> first.c, ok |-> FALSE, insts |-> <<>>, err |-> first.err]
            ELSE LET rest == ResolveEach(first.c, Tail(keys))
                 IN [rest EXCEPT !.insts = <<first.inst>> \o @]

\* the keys that the constructor of PluginManager resolves, in order
ConstructorKeys ==
    <<"IPropertiesService", "ITagService", "IFileService", "ITemplateService",
      "ISearchService", "IProjectService", "IAreasService", "SecretsManager",
      "IntegrationManager", "AIProviderManager", "PromptService", "IAIService",
      "MCPServer">>
\* the keys that loadSettings resolves again, in order
ReloadedKeys == <<"IProjectService", "IAreasService", "MCPServer">>

\* the fields of the PluginManager after the assignments that were reached
Assigned(held, keys, insts) ==
    [k \in DOMAIN held \cup {keys[i] : i \in DOMAIN insts} |->
        IF \E i \in DOMAIN insts : keys[i] = k
        THEN Ref(insts[CHOOSE i \in DOMAIN insts : keys[i] = k])
        ELSE held[k]]

\* ------------------------------------------------------------------ the log
\* the calls of key's factory or constructor that a log records
Invocations(l, key) ==
    Cardinality({i \in DOMAIN l : l[i].e = "invoke" /\ l[i].key = key})
\* those of them that returned an object
Constructions(l, key) ==
    Cardinality({i \in DOMAIN l :
                    l[i].e = "invoke" /\ l[i].key = key /\ l[i].by \in Builders})
\* the keys resolve was entered for, in order
Entered(l) ==
    LET RECURSIVE keep(_)
        keep(s) == IF s = <<>> THEN <<>>
                   ELSE IF Head(s).e = "enter" THEN <<Head(s).key>> \o keep(Tail(s))
                   ELSE keep(Tail(s))
    IN keep(l)

\* ------------------------------------------------------------------ Init
\* a new ServiceContainer, used with the given keys
Start(keys) ==
    /\ services = EmptyMap
    /\ singletons = EmptyMap
    /\ scopedInstances = EmptyMap
    /\ currentScope = NoScope
    /\ resolving = {}
    /\ nextId = 1
    /\ built = [k \in keys |-> 0]
    /\ given = [k \in keys |-> NotGiven]
    /\ opened = NoScope
    /\ dropped = {}
    /\ manager = NoManager
    /\ lastOp = [op |-> "new", arg |-> ""]
    /\ lastRes = [ok |-> TRUE, inst |-> NoInst, err |-> NoErr]
    /\ log = <<>>

Init == Start(Keys)

Void == [ok |-> TRUE, inst |-> NoInst, err |-> NoErr]

\* ------------------------------------------------------------------ actions
\* Register dropping the instance cached for the key
RegisterEvicts(key, registration) ==
    /\ services' = Put(services, key, RegisterEntry(registration))
    /\ singletons' = Del(singletons, key)
    /\ scopedInstances' = [sc \in DOMAIN scopedInstances |-> Del(scopedInstances[sc], key)]
    /\ given' = [given EXCEPT ![key] = NotGiven]
    /\ lastOp' = [op |-> "register", arg |-> key]
    /\ lastRes' = Void
    /\ log' = <<>>
    /\ UNCHANGED <<currentScope, resolving, nextId, built, opened,
                   dropped, manager>>

\* container.register(key, registration)
Register(key, registration) ==
    /\ services' = Put(services, key, RegisterEntry(registration))
    /\ given' = [given EXCEPT ![key] = NotGiven]
    /\ lastOp' = [op |-> "register", arg |-> key]
    /\ lastRes' = Void
    /\ log' = <<>>
    /\ UNCHANGED <<singletons, scopedInstances, currentScope, resolving, nextId, built, opened,
                   dropped, manager>>

\* container.resolve(key), called from outside the container, in a behaviour
\* that constructs at most `most` instances
ResolveWithin(key, most) ==
    LET r == Resolve(Container, key)
    IN /\ r.c.nextId <= most + 1
       /\ services' = r.c.services
       /\ singletons' = r.c.singletons
       /\ scopedInstances' = r.c.scopedInstances
       /\ currentScope' = r.c.currentScope
       /\ resolving' = r.c.resolving
       /\ nextId' = r.c.nextId
       /\ built' = [k \in DOMAIN built |->
                        IF k \in DOMAIN services /\ services[k].lifecycle = "singleton"
                        THEN built[k] + Constructions(r.c.log, k)
                        ELSE built[k]]
       /\ given' = IF r.ok
                   THEN [given EXCEPT ![key] = [id |-> r.inst.id, scope |-> currentScope]]
                   ELSE given
       /\ UNCHANGED <<opened, dropped, manager>>
       /\ lastOp' = [op |-> "resolve", arg |-> key]
       /\ lastRes' = [ok |-> r.ok, inst |-> r.inst, err |-> r.err]
       /\ log' = r.c.log

ResolveCall(key) == ResolveWithin(key, MaxInst)

\* factory.createWithDependencies(key, dependencies)
CreateWithDependenciesCall(key, dependencies) ==
    LET r == CreateWithDependencies(Container, key, dependencies)
    IN /\ r.c.nextId <= MaxInst + 1
       /\ services' = r.c.services
       /\ singletons' = r.c.singletons
       /\ scopedInstances' = r.c.scopedInstances
       /\ currentScope' = r.c.currentScope
       /\ resolving' = r.c.resolving
       /\ nextId' = r.c.nextId
       /\ lastOp' = [op |-> "createWithDependencies", arg |-> key,
                     with |-> dependencies]
       /\ lastRes' = [ok |-> r.ok, inst |-> r.inst, err |-> r.err]
       /\ log' = r.c.log
       /\ UNCHANGED <<built, given, opened, dropped, manager>>

\* Clear without this.singletons.clear()
ClearKeepsSingletons ==
    /\ services' = EmptyMap
    /\ scopedInstances' = EmptyMap
    /\ resolving' = {}
    /\ lastOp' = [op |-> "clear", arg |-> ""]
    /\ lastRes' = Void
    /\ log' = <<>>
    /\ built' = [k \in DOMAIN built |-> 0]
    /\ given' = [k \in DOMAIN given |-> NotGiven]
    /\ dropped' = {<<k, singletons[k].id>> : k \in DOMAIN singletons}
    /\ UNCHANGED <<singletons, currentScope, nextId, opened, manager>>

\* container.clear()
Clear ==
    /\ services' = EmptyMap
    /\ singletons' = EmptyMap
    /\ scopedInstances' = EmptyMap
    /\ resolving' = {}
    /\ lastOp' = [op |-> "clear", arg |-> ""]
    /\ lastRes' = Void
    /\ log' = <<>>
    /\ built' = [k \in DOMAIN built |-> 0]
    /\ given' = [k \in DOMAIN given |-> NotGiven]
    /\ dropped' = {<<k, singletons[k].id>> : k \in DOMAIN singletons}
    /\ UNCHANGED <<currentScope, nextId, opened, manager>>

\* BeginScope discarding the cache of the scope that was active
BeginScopeDiscards(scopeId) ==
    /\ currentScope' = scopeId
    /\ scopedInstances' = Del(scopedInstances, currentScope)
    /\ opened' = scopeId
    /\ lastOp' = [op |-> "beginScope", arg |-> scopeId]
    /\ lastRes' = Void
    /\ log' = <<>>
    /\ UNCHANGED <<services, singletons, resolving, nextId, built, given,
                   dropped, manager>>

\* container.beginScope(scopeId)
BeginScope(scopeId) ==
    /\ currentScope' = scopeId
    /\ opened' = scopeId
    /\ lastOp' = [op |-> "beginScope", arg |-> scopeId]
    /\ lastRes' = Void
    /\ log' = <<>>
    /\ UNCHANGED <<services, singletons, scopedInstances, resolving, nextId, built, given,
                   dropped, manager>>

\* EndScope dropping the singleton cache as well
EndScopeDropsSingletons ==
    /\ IF Truthy(currentScope)
       THEN /\ scopedInstances' = Del(scopedInstances, currentScope)
            /\ currentScope' = NoScope
            /\ singletons' = EmptyMap
       ELSE UNCHANGED <<scopedInstances, currentScope, singletons>>
    /\ opened' = NoScope
    /\ lastOp' = [op |-> "endScope", arg |-> ""]
    /\ lastRes' = Void
    /\ log' = <<>>
    /\ UNCHANGED <<services, resolving, nextId, built, given, dropped, manager>>

\* container.endScope()
EndScope ==
    /\ IF Truthy(currentScope)
       THEN /\ scopedInstances' = Del(scopedInstances, currentScope)
            /\ currentScope' = NoScope
       ELSE UNCHANGED <<scopedInstances, currentScope>>
    /\ opened' = NoScope
    /\ lastOp' = [op |-> "endScope", arg |-> ""]
    /\ lastRes' = Void
    /\ log' = <<>>
    /\ UNCHANGED <<services, singletons, resolving, nextId, built, given, dropped,
                   manager>>

\* what a run of several resolve calls leaves in the variables
Ran(r, keys, op) ==
    /\ services' = r.c.services
    /\ singletons' = r.c.singletons
    /\ scopedInstances' = r.c.scopedInstances
    /\ currentScope' = r.c.currentScope
    /\ resolving' = r.c.resolving
    /\ nextId' = r.c.nextId
    /\ built' = [k \in DOMAIN built |-> Constructions(r.c.log, k)]
    /\ given' = [k \in DOMAIN given |->
                    IF \E i \in DOMAIN r.insts : keys[i] = k
                    THEN [id |-> r.insts[CHOOSE i \in DOMAIN r.insts : keys[i] = k].id,
                          scope |-> currentScope]
                    ELSE NotGiven]
    /\ lastOp' = op
    /\ lastRes' = [ok |-> r.ok, inst |-> NoInst, err |-> r.err]
    /\ log' = r.c.log

\* new PluginManager(plugin, para)
NewPluginManager ==
    LET container == [services |-> EmptyMap, singletons |-> EmptyMap,
                      scopedInstances |-> EmptyMap, currentScope |-> NoScope,
                      resolving |-> {}, nextId |-> nextId, log |-> <<>>]
        r == ResolveEach(RegisterServices(container, DefaultSettings), ConstructorKeys)
    IN /\ ~manager.made
       /\ r.c.nextId <= MaxReloaded + 1
       /\ Ran(r, ConstructorKeys, [op |-> "new PluginManager", arg |-> ""])
       /\ manager' = IF r.ok
                      THEN [made |-> TRUE, settings |-> DefaultSettings,
                            held |-> Assigned(<<>>, ConstructorKeys, r.insts)]
                      ELSE manager
       /\ UNCHANGED <<opened, dropped>>

\* pluginManager.loadSettings(), plugin.loadData() returning loadedData
LoadSettings(loadedData) ==
    LET settings == Merged(DefaultSettings, loadedData)
        r == ResolveEach(RegisterServices(ClearIn(Container), settings), ReloadedKeys)
    IN /\ manager.made
       /\ r.c.nextId <= MaxReloaded + 1
       /\ Ran(r, ReloadedKeys,
              [op |-> "loadSettings", arg |-> "", with |-> loadedData])
       /\ manager' = [manager EXCEPT !.settings = settings,
                                     !.held = Assigned(@, ReloadedKeys, r.insts)]
       /\ dropped' = {<<k, singletons[k].id>> : k \in DOMAIN singletons}
       /\ UNCHANGED opened

\* ------------------------------------------------------------------ callers
\* Re-registration of one key (B) under every lifecycle, with another factory
\* and another dependency list, and a service (A) that depends on it.
LifeInputs ==
    {<<"B", Reg(l, d, f, None)>> :
        l \in Lifecycles \cup {None}, d \in {<<>>, <<"A">>}, f \in {"f1", "f2"}}
    \cup {<<"A", Reg(l, <<"B">>, "f1", None)>> : l \in {"singleton", "transient"}}

Next ==
    \/ \E in \in LifeInputs : Register(in[1], in[2])
    \/ \E key \in Keys : ResolveCall(key)
    \/ Clear
    \/ BeginScope("s1")
    \/ EndScope

Spec == Init /\ [][Next]_vars

\* Units of work opened and closed around a scoped service (B) and a service
\* (A) that depends on it.
ScopeInputs ==
    {<<"B", Reg(l, <<>>, "f1", None)>> : l \in Lifecycles}
    \cup {<<"A", Reg(l, <<"B">>, "f1", None)>> : l \in {"singleton", "transient"}}

NextScope ==
    \/ \E in \in ScopeInputs : Register(in[1], in[2])
    \/ \E key \in Keys : ResolveCall(key)
    \/ Clear
    \/ \E scopeId \in ScopeIds : BeginScope(scopeId)
    \/ EndScope

SpecScope == Init /\ [][NextScope]_vars

\* Dependency graphs over the keys: a transient A with every dependency list,
\* and a B that is singleton or transient, depends on nothing or on one key,
\* and has a factory that builds, a factory that throws or nothing to
\* construct with.
GraphInputs ==
    {<<"A", Reg("transient", d, "f1", None)>> : d \in SeqsUpTo(Keys, MaxDeps)}
    \cup {<<"B", Reg(l, d, f, None)>> :
        l \in {"singleton", "transient"}, d \in SeqsUpTo(Keys, 1),
        f \in {"f1", "fThrow", None}}

NextGraph ==
    \/ \E in \in GraphInputs : Register(in[1], in[2])
    \/ \E key \in Keys : ResolveCall(key)
    \/ Clear

SpecGraph == Init /\ [][NextGraph]_vars

\* A service (S) built from a repository (R) and a logger (L), the repository
\* itself built from the logger.
ShareKeys == {"S", "R", "L"}

ShareInputs ==
    {<<"S", Reg(l, <<"R", "L">>, "f1", None)>> : l \in {"transient", "singleton"}}
    \cup {<<"R", Reg(l, d, "f1", None)>> :
            l \in {"singleton", "transient"}, d \in {<<"L">>, <<>>}}
    \cup {<<"L", Reg(l, <<>>, "f1", None)>> : l \in {"singleton", "transient"}}

InitShare == Start(ShareKeys)

NextShare ==
    \/ \E in \in ShareInputs : Register(in[1], in[2])
    \/ \E key \in ShareKeys : ResolveWithin(key, MaxInst + 1)
    \/ Clear

SpecShare == InitShare /\ [][NextShare]_vars

\* A transient service (A) whose resolution can fail after its dependency (B,
\* singleton or scoped) has been resolved: A has no usable factory or
\* constructor, its factory throws, or it lists itself after B; with and
\* without a scope.
FailureInputs ==
    {<<"A", Reg("transient", d, fi[1], fi[2])>> :
        d \in {<<"B">>, <<"B", "A">>},
        fi \in {<<"f1", None>>, <<None, "notfn">>, <<"fThrow", None>>}}
    \cup {<<"B", Reg(l, <<>>, "f1", None)>> : l \in {"singleton", "scoped"}}

NextFailure ==
    \/ \E in \in FailureInputs : Register(in[1], in[2])
    \/ \E key \in Keys : ResolveCall(key)
    \/ Clear
    \/ \E scopeId \in ScopeIds : BeginScope(scopeId)
    \/ EndScope

SpecFailure == Init /\ [][NextFailure]_vars

\* Entries with a factory, an implementation, both or neither, for a service
\* (A) that depends on a singleton (B); instances asked from the container
\* and from the ServiceFactory, which is handed a list of its caller's own.
FactoryInputs ==
    {<<"A", Reg(l, <<"B">>, f, i)>> :
        l \in {"singleton", "transient"}, f \in {"f1", "fThrow", None},
        i \in {"I1", "IThrow", "fnThrow", "notfn", None}}
    \cup {<<"B", Reg("singleton", <<>>, "f1", None)>>}

\* an object that the caller built itself
Mock == [id |-> 0, key |-> "mock", by |-> "test", deps |-> <<>>]
Supplied == {<<>>, <<Mock>>}

NextFactory ==
    \/ \E in \in FactoryInputs : Register(in[1], in[2])
    \/ \E key \in Keys : ResolveCall(key)
    \/ \E key \in Keys, dependencies \in Supplied :
          CreateWithDependenciesCall(key, dependencies)
    \/ Clear

SpecFactory == Init /\ [][NextFactory]_vars

\* The plugin: its manager is constructed, and settings are loaded any
\* number of times.
InitBoot == Start(BootKeys)

NextBoot ==
    \/ NewPluginManager
    \/ \E loadedData \in LoadedData : LoadSettings(loadedData)

SpecBoot == InitBoot /\ [][NextBoot]_vars

\* ------------------------------------------------------------------ claims
IsResolve(op, key) == op = [op |-> "resolve", arg |-> key]

Registered(key, lifecycle) ==
    key \in DOMAIN services /\ services[key].lifecycle = lifecycle

\* every instance a cache holds
CachedInstances(single, scoped) ==
    {single[k] : k \in DOMAIN single}
    \cup UNION {{scoped[s][k] : k \in DOMAIN scoped[s]} : s \in DOMAIN scoped}

\* C1: once resolve(k) has succeeded for a key k registered singleton, every
\* later resolve(k), with no clear() and no registration of k in between,
\* returns that same instance without calling k's factory or constructor,
\* which has then built exactly one instance.
C1_SingletonSameInstance ==
    [][\A k \in Keys :
          (IsResolve(lastOp', k) /\ Registered(k, "singleton") /\ given[k].id # 0)
          => /\ lastRes'.ok
             /\ lastRes'.inst.id = given[k].id
             /\ Invocations(log', k) = 0
             /\ built'[k] = 1]_vars

\* a second resolve of a singleton has just returned the instance of the first
C1_Witness ==
    \E k \in Keys :
        /\ IsResolve(lastOp, k) /\ Registered(k, "singleton")
        /\ lastRes.ok /\ lastRes.inst = singletons[k]
        /\ log = <<[e |-> "enter", key |-> k, by |-> ""]>>
        /\ lastRes.inst.by = services[k].factory
        /\ built[k] = 1

\* C2: every successful resolve(k) of a key k registered transient calls k's
\* factory or constructor once, resolves each key of k's dependency list and
\* returns an object that did not exist before the call; no instance built
\* for a transient key is put into the singleton cache or a scope's cache.
C2_TransientAlwaysNew ==
    [][\A k \in Keys :
          /\ (IsResolve(lastOp', k) /\ Registered(k, "transient") /\ lastRes'.ok)
             => /\ lastRes'.inst.id >= nextId
                /\ lastRes'.inst.id # given[k].id
                /\ Invocations(log', k) = 1
                /\ Len(lastRes'.inst.deps) = Len(services[k].dependencies)
                /\ \A i \in DOMAIN services[k].dependencies :
                      \E j \in DOMAIN log' :
                          log'[j] = [e |-> "enter", key |-> services[k].dependencies[i],
                                     by |-> ""]
          /\ (lastOp'.op = "resolve" /\ Registered(k, "transient"))
             => \A x \in CachedInstances(singletons', scopedInstances') :
                   x.key = k => x \in CachedInstances(singletons, scopedInstances)]_vars

\* a transient key with a dependency has been resolved twice in a row
C2_Witness ==
    \E k \in Keys :
        /\ IsResolve(lastOp, k) /\ Registered(k, "transient")
        /\ lastRes.ok /\ lastRes.inst.id >= 3
        /\ services[k].dependencies # <<>>
        /\ Invocations(log, k) = 1
        /\ lastRes.inst \notin CachedInstances(singletons, scopedInstances)

\* C3: for a key k registered scoped, two resolve(k) calls in a row inside an
\* open scope return the same instance, and a resolve(k) made when another
\* scope id is current than at the previous resolve(k) returns another one.
C3_ScopedPerScope ==
    [][\A k \in Keys :
          (IsResolve(lastOp', k) /\ Registered(k, "scoped") /\ given[k].id # 0)
          => /\ (IsResolve(lastOp, k) /\ lastRes.ok /\ opened # NoScope)
                => (lastRes'.ok /\ lastRes'.inst.id = given[k].id)
             /\ (given[k].scope # currentScope)
                => (lastRes'.ok /\ lastRes'.inst.id # given[k].id)]_vars

\* The dependency graph as resolve walks it: from a key that is registered and
\* has no instance to return at once, to each key of its dependency list.
Walked(x) == x \in DOMAIN services /\ ~HasCached(Container, x, services[x])
Deps(x) ==
    IF Walked(x)
    THEN {services[x].dependencies[i] : i \in DOMAIN services[x].dependencies}
    ELSE {}
RECURSIVE Closure(_)
Closure(S) ==
    LET T == S \cup UNION {Deps(x) : x \in S}
    IN IF T = S THEN S ELSE Closure(T)
\* the keys on a cycle with x
CycleOf(x) == {y \in Closure(Deps(x)) : x \in Closure(Deps(y))}
\* the keys that lie on a cycle reachable from k
CycleKeys(k) == {x \in Closure({k}) : x \in CycleOf(x)}
\* every key reachable from k is registered and, where it must be built, has
\* a factory or constructor that returns
Sound(k) ==
    \A x \in Closure({k}) :
        /\ x \in DOMAIN services
        /\ Walked(x) => \/ services[x].factory \in Builders
                        \/ services[x].factory = None
                           /\ services[x].implementation \in Builders
\* the step builds no instance of x and caches none
Untouched(x) ==
    /\ Invocations(log', x) = 0
    /\ \A i \in CachedInstances(singletons', scopedInstances') :
          i.key = x => i \in CachedInstances(singletons, scopedInstances)

\* C4 as claimed: when a cycle is reachable from k through keys without a
\* cached instance, resolve(k) fails with CircularDependency naming a key on
\* that cycle, and no key on the cycle is constructed or cached.
C4_CycleAlwaysReported ==
    [][\A k \in Keys :
          (IsResolve(lastOp', k) /\ CycleKeys(k) # {})
          => /\ ~lastRes'.ok
             /\ lastRes'.err.kind = "Circular"
             /\ \A x \in CycleKeys(k) : lastRes'.err.key \in CycleOf(x) /\ Untouched(x)]_vars

\* C4 as amended: such a resolve(k) fails and constructs or caches no key that
\* lies on a cycle; the failure is CircularDependency naming a key on a
\* reachable cycle when every reachable key is registered and constructible,
\* and otherwise may be the error of a dependency that comes first.
C4_CycleFails ==
    [][\A k \in Keys :
          (IsResolve(lastOp', k) /\ CycleKeys(k) # {})
          => /\ ~lastRes'.ok
             /\ lastRes'.err.kind \in {"Circular", "NotRegistered", "Invalid", "Thrown"}
             /\ lastRes'.err.kind = "Circular" => lastRes'.err.key \in CycleKeys(k)
             /\ Sound(k) => lastRes'.err.kind = "Circular"
             /\ \A x \in CycleKeys(k) : Untouched(x)]_vars

\* resolve(A) has failed on the cycle B -> B that it reached through A, after
\* which neither key is cached
C4_Witness ==
    /\ IsResolve(lastOp, "A") /\ ~lastRes.ok
    /\ lastRes.err = ErrCircular("B")
    /\ Entered(log) = <<"A", "B", "B">>
    /\ Invocations(log, "A") = 0 /\ Invocations(log, "B") = 0
    /\ singletons = EmptyMap

\* C5: between calls the tracking set is empty, whatever way the last
\* resolve ended, and a resolve(k) that can reach no cycle never fails with
\* CircularDependency, whatever failed before it.
C5_TrackingSetEmptied ==
    /\ [](resolving = {})
    /\ [][\A k \in Keys :
             (IsResolve(lastOp', k) /\ CycleKeys(k) = {})
             => lastRes'.err.kind # "Circular"]_vars

\* resolve(A) has failed inside the resolution of its dependency B, whose
\* factory threw while both keys were marked, and the set is empty again
C5_Witness ==
    /\ IsResolve(lastOp, "A") /\ ~lastRes.ok
    /\ lastRes.err = ErrThrown("fThrow")
    /\ Entered(log) = <<"A", "B">>
    /\ resolving = {}

\* C6: resolve(k) of a key without registration entry fails with the
\* not-registered error naming k and changes neither the registry, nor a
\* cache, nor the active scope, nor the tracking set.
C6_UnregisteredChangesNothing ==
    [][\A k \in Keys :
          (IsResolve(lastOp', k) /\ k \notin DOMAIN services)
          => /\ ~lastRes'.ok
             /\ lastRes'.err = [kind |-> "NotRegistered", key |-> k]
             /\ UNCHANGED <<services, singletons, scopedInstances, currentScope,
                            resolving>>
             /\ Invocations(log', k) = 0]_vars

\* an unregistered key has been resolved while the caches held instances
C6_Witness ==
    \E k \in Keys :
        /\ IsResolve(lastOp, k) /\ k \notin DOMAIN services
        /\ lastRes.err = [kind |-> "NotRegistered", key |-> k]
        /\ singletons # EmptyMap /\ scopedInstances # EmptyMap

C8_ReRegisteredFactoryUnused ==
    [][\A k \in Keys :
          /\ (/\ lastOp'.op = "resolve" /\ Registered(k, "singleton")
               /\ k \in DOMAIN singletons
               /\ singletons[k].by # services[k].factory)
             => /\ Invocations(log', k) = 0
                /\ singletons'[k] = singletons[k]
                /\ IsResolve(lastOp', k)
                      => lastRes'.ok /\ lastRes'.inst = singletons[k]
          /\ (IsResolve(lastOp', k) /\ lastRes'.ok /\ lastRes'.inst.id >= nextId)
             => lastRes'.inst.by = services[k].factory]_vars

\* a singleton registered again with another factory has been resolved and
\* the instance of the first factory came back
C8_Witness ==
    \E k \in Keys :
        /\ IsResolve(lastOp, k) /\ Registered(k, "singleton") /\ lastRes.ok
        /\ services[k].factory = "f2" /\ lastRes.inst.by = "f1"
        /\ log = <<[e |-> "enter", key |-> k, by |-> ""]>>

\* the instances that resolve(k) could find: the singleton cached for k and
\* the one the current scope caches for k
Visible(k) ==
    {singletons[x] : x \in DOMAIN singletons \cap {k}}
    \cup {scopedInstances[sc][k] :
            sc \in {x \in DOMAIN scopedInstances \cap {currentScope} :
                        k \in DOMAIN scopedInstances[x]}}

\* C9 as claimed: a resolve(k) that follows a registration of k made while an
\* instance was cached for k returns a cached instance and constructs nothing,
\* whatever the new entry declares.
C9_ReRegistrationKeepsInstance ==
    [][\A k \in Keys :
          (/\ lastOp = [op |-> "register", arg |-> k]
           /\ IsResolve(lastOp', k) /\ Visible(k) # {})
          => /\ lastRes'.ok
             /\ lastRes'.inst \in Visible(k)
             /\ Invocations(log', k) = 0]_vars

\* C9 as amended: register changes no cache, and resolve(k) returns the cached
\* instance and constructs nothing whenever the entry now registered is
\* singleton and the singleton cache holds k, or is scoped and the current
\* scope's cache holds k, whatever factory and dependency list it declares.
C9_SameLifecycleKeepsInstance ==
    [][/\ lastOp'.op = "register"
          => singletons' = singletons /\ scopedInstances' = scopedInstances
       /\ \A k \in Keys :
            (/\ IsResolve(lastOp', k)
             /\ \/ Registered(k, "singleton") /\ k \in DOMAIN singletons
                \/ /\ Registered(k, "scoped")
                   /\ currentScope \in DOMAIN scopedInstances
                   /\ k \in DOMAIN scopedInstances[currentScope])
            => /\ lastRes'.ok
               /\ lastRes'.inst =
                     IF services[k].lifecycle = "singleton" THEN singletons[k]
                     ELSE scopedInstances[currentScope][k]
               /\ Invocations(log', k) = 0
               /\ singletons' = singletons /\ scopedInstances' = scopedInstances]_vars

\* a scoped key registered again with another factory and another dependency
\* list has been resolved in the scope that caches it, and the old instance
\* came back
C9_Witness ==
    \E k \in Keys :
        /\ IsResolve(lastOp, k) /\ Registered(k, "scoped") /\ lastRes.ok
        /\ lastRes.inst.by # services[k].factory
        /\ Len(lastRes.inst.deps) # Len(services[k].dependencies)
        /\ scopedInstances[currentScope][k] = lastRes.inst

\* C10: a service that depends on K, when resolved, holds an instance of K
\* built by the implementation registered for K at that time.
C10_DependentsGetNewImplementation ==
    [][\A s \in Keys :
          (IsResolve(lastOp', s) /\ lastRes'.ok)
          => \A i \in DOMAIN services[s].dependencies \cap DOMAIN lastRes'.inst.deps :
                LET K == services[s].dependencies[i]
                IN K \in DOMAIN services
                   => lastRes'.inst.deps[i].by = services[K].factory]_vars

\* the registrations of the service, its repository and its logger
SharedGraph ==
    /\ Registered("S", "transient") /\ services["S"].dependencies = <<"R", "L">>
    /\ Registered("R", "singleton") /\ services["R"].dependencies = <<"L">>
    /\ Registered("L", "singleton")

\* C11: with transient S depending on singletons R and L, and R on L, every
\* resolve(S) returns a new S built with the one cached R and the one cached
\* L; R and L have each been constructed exactly once, the R built in such a
\* call holds that L, and two resolve(S) calls in a row return two distinct
\* instances holding the same R and L.
C11_SharedSingletonDependencies ==
    [][(IsResolve(lastOp', "S") /\ SharedGraph)
       => /\ lastRes'.ok
          /\ lastRes'.inst.id >= nextId
          /\ lastRes'.inst.deps = <<Ref(singletons'["R"]), Ref(singletons'["L"])>>
          /\ \A k \in {"R", "L"} :
                /\ built'[k] = 1
                /\ k \in DOMAIN singletons
                      => singletons'[k] = singletons[k] /\ Invocations(log', k) = 0
          /\ Invocations(log', "R") = 1
                => singletons'["R"].deps = <<Ref(singletons'["L"])>>
          /\ (IsResolve(lastOp, "S") /\ lastRes.ok)
                => /\ lastRes'.inst.id # lastRes.inst.id
                   /\ lastRes'.inst.deps = lastRes.inst.deps]_vars

\* S has been resolved a second time: the fourth object built is an S that
\* holds the repository and the logger built during the first resolve
C11_Witness ==
    /\ IsResolve(lastOp, "S") /\ SharedGraph /\ lastRes.ok
    /\ lastRes.inst.id = 4
    /\ lastRes.inst.deps = <<[id |-> 2, key |-> "R", by |-> "f1"],
                             [id |-> 1, key |-> "L", by |-> "f1"]>>
    /\ singletons["R"].deps = <<[id |-> 1, key |-> "L", by |-> "f1"]>>
    /\ Entered(log) = <<"S", "R", "L">>
    /\ Invocations(log, "S") = 1

\* the keys that the message of an error names: the container puts a key
\* into the three messages of its own and adds nothing to an error thrown by
\* a factory or a constructor
Mentioned(err) ==
    IF err.kind \in {"NotRegistered", "Circular", "Invalid"} THEN {err.key} ELSE {}

\* C12: with X registered with dependencies [Y] and Y with dependencies [X],
\* neither having an instance to return, resolve(X) fails with
\* CircularDependency and the error mentions both X and Y.
C12_CycleNamesBothKeys ==
    [][\A x \in Keys, y \in Keys :
          (/\ x # y /\ IsResolve(lastOp', x)
           /\ Walked(x) /\ services[x].dependencies = <<y>>
           /\ Walked(y) /\ services[y].dependencies = <<x>>)
          => /\ ~lastRes'.ok
             /\ lastRes'.err.kind = "Circular"
             /\ {x, y} \subseteq Mentioned(lastRes'.err)]_vars

\* C12 as amended: such a resolve(X) fails with CircularDependency naming X,
\* the key that closes the cycle, and no other key; it enters X, Y and X
\* again and constructs nothing.
C12_CycleNamesClosingKey ==
    [][\A x \in Keys, y \in Keys :
          (/\ x # y /\ IsResolve(lastOp', x)
           /\ Walked(x) /\ services[x].dependencies = <<y>>
           /\ Walked(y) /\ services[y].dependencies = <<x>>)
          => /\ ~lastRes'.ok
             /\ lastRes'.err.kind = "Circular"
             /\ Mentioned(lastRes'.err) = {x}
             /\ Entered(log') = <<x, y, x>>
             /\ Invocations(log', x) = 0 /\ Invocations(log', y) = 0]_vars

\* resolve(A) has failed on the cycle A -> B -> A
C12_Witness ==
    /\ IsResolve(lastOp, "A") /\ ~lastRes.ok
    /\ "A" \in DOMAIN services /\ services["A"].dependencies = <<"B">>
    /\ "B" \in DOMAIN services /\ services["B"].dependencies = <<"A">>
    /\ lastRes.err = ErrCircular("A")
    /\ Entered(log) = <<"A", "B", "A">>

\* C13: for a key k registered scoped, a resolve(k) made while the caller has
\* no scope open constructs a new instance with one call of k's factory and
\* puts no instance of k into the singleton cache or a scope's cache, as for
\* a transient key.
C13_ScopedWithoutScopeIsTransient ==
    [][\A k \in Keys :
          (IsResolve(lastOp', k) /\ Registered(k, "scoped") /\ opened = NoScope)
          => /\ lastRes'.ok
             /\ lastRes'.inst.id >= nextId
             /\ Invocations(log', k) = 1
             /\ \A x \in CachedInstances(singletons', scopedInstances') :
                   x.key = k => x \in CachedInstances(singletons, scopedInstances)
             /\ lastRes'.inst \notin CachedInstances(singletons', scopedInstances')]_vars

\* a scoped key has been resolved for the third time with no scope open,
\* and no cache holds anything
C13_Witness ==
    \E k \in Keys :
        /\ IsResolve(lastOp, k) /\ Registered(k, "scoped") /\ opened = NoScope
        /\ lastRes.ok /\ lastRes.inst.id = 3 /\ lastRes.inst.key = k
        /\ Invocations(log, k) = 1
        /\ singletons = EmptyMap /\ scopedInstances = EmptyMap

IsCreate(op, key) == op.op = "createWithDependencies" /\ op.arg = key

\* C14: createWithDependencies(k, deps) enters resolve for no key and leaves
\* the registry, the caches, the active scope and the tracking set as they
\* were; for an unregistered k it fails with the not-registered error naming
\* k; when it succeeds it returns an object that did not exist before, built
\* by one call of k's factory or constructor from the list handed in, even
\* when the singleton cache holds an instance for k.
C14_CreateWithSuppliedOnly ==
    [][\A k \in Keys :
          IsCreate(lastOp', k)
          => /\ UNCHANGED <<services, singletons, scopedInstances, currentScope,
                            resolving>>
             /\ Entered(log') = <<>>
             /\ k \notin DOMAIN services
                   => ~lastRes'.ok /\ lastRes'.err = [kind |-> "NotRegistered", key |-> k]
             /\ lastRes'.ok
                   => /\ lastRes'.inst.id >= nextId
                      /\ lastRes'.inst \notin CachedInstances(singletons, scopedInstances)
                      /\ Invocations(log', k) = 1 /\ Len(log') = 1
                      /\ lastRes'.inst.deps =
                            [i \in DOMAIN lastOp'.with |-> Ref(lastOp'.with[i])]]_vars

\* an instance has been built from a list of the caller's for a singleton
\* key that declares a dependency on B, while the cache holds the instance
\* of an earlier resolve
C14_Witness ==
    /\ IsCreate(lastOp, "A") /\ lastOp.with = <<Mock>>
    /\ Registered("A", "singleton") /\ "A" \in DOMAIN singletons
    /\ services["A"].dependencies = <<"B">>
    /\ singletons["A"].deps = <<Ref(singletons["B"])>>
    /\ lastRes.ok /\ lastRes.inst.id > singletons["A"].id
    /\ lastRes.inst.deps = <<Ref(Mock)>>
    /\ log = <<[e |-> "invoke", key |-> "A", by |-> lastRes.inst.by]>>

\* the entries of the registration list name only keys registered before them
RegisteredInOrder(entries) ==
    \A i \in DOMAIN entries :
        \A d \in DOMAIN entries[i][2].dependencies :
            \E j \in 1..(i - 1) : entries[j][1] = entries[i][2].dependencies[d]

\* C15: every dependency key that an entry of the bootstrap list names is
\* registered earlier in the list; the constructor of PluginManager ends with
\* every one of its resolve calls having returned, each field holding the
\* singleton cached for its key, no key entered that is not registered, and
\* no factory or constructor called twice; no service is ever constructed
\* more than once between two clear() calls.
C15_BootstrapResolves ==
    /\ \A loadedData \in LoadedData :
          RegisteredInOrder(Bootstrap(Merged(DefaultSettings, loadedData)))
    /\ lastOp.op = "new PluginManager"
          => /\ lastRes.ok /\ lastRes.err = NoErr /\ manager.made
             /\ DOMAIN services = BootKeys
             /\ \A i \in DOMAIN ConstructorKeys :
                   /\ ConstructorKeys[i] \in DOMAIN singletons
                   /\ manager.held[ConstructorKeys[i]] = Ref(singletons[ConstructorKeys[i]])
             /\ \A k \in BootKeys : Invocations(log, k) <= 1
    /\ \A k \in BootKeys : built[k] <= 1

\* the PluginManager has been constructed: thirteen services have been built
\* around the two objects handed in, and ILinkService has not been asked for
C15_Witness ==
    /\ lastOp.op = "new PluginManager" /\ manager.made
    /\ nextId = 14
    /\ DOMAIN singletons = BootKeys \ {"ILinkService"}
    /\ singletons["App"].id = -1 /\ singletons["PARA"].id = -2
    /\ manager.held["MCPServer"].id = 13
    /\ manager.held["IProjectService"].by = "new ProjectService(.., 3)"

\* C16: resolve(k) of a key registered singleton whose instance is cached
\* returns that instance, enters resolve for no other key, calls no factory
\* or constructor and changes no field of the container, whatever the
\* dependency list now registered for k names; and no resolve of another
\* key calls k's factory or replaces the cached instance.
C16_CachedSingletonReturnedAtOnce ==
    [][\A k \in Keys :
          (/\ lastOp'.op = "resolve" /\ Registered(k, "singleton")
           /\ k \in DOMAIN singletons)
          => /\ Invocations(log', k) = 0
             /\ singletons'[k] = singletons[k]
             /\ IsResolve(lastOp', k)
                   => /\ lastRes'.ok /\ lastRes'.inst = singletons[k]
                      /\ log' = <<[e |-> "enter", key |-> k, by |-> ""]>>
                      /\ UNCHANGED <<services, singletons, scopedInstances,
                                     currentScope, resolving, nextId>>]_vars

\* a cached singleton has been returned while its dependency list names a
\* key that is not registered
C16_Witness ==
    /\ IsResolve(lastOp, "B") /\ Registered("B", "singleton") /\ lastRes.ok
    /\ services["B"].dependencies = <<"A">> /\ "A" \notin DOMAIN services
    /\ lastRes.inst = singletons["B"] /\ lastRes.inst.deps = <<>>

\* what constructs the instances of a key: its factory, or else its
\* implementation
BuilderOf(k) ==
    IF services[k].factory # None THEN services[k].factory
    ELSE services[k].implementation

\* The events of a resolve of k that succeeds, in depth-first post-order:
\* k is entered; unless `have` (the keys with an instance to return at once)
\* holds k, each key of k's dependency list is then resolved in full, in list
\* order, and k's builder is called last.
RECURSIVE PostOrder(_, _)
RECURSIVE PostOrderEach(_, _)
PostOrder(have, k) ==
    LET enter == <<[e |-> "enter", key |-> k, by |-> ""]>>
        kids == PostOrderEach(have, services[k].dependencies)
    IN IF k \in have
       THEN [events |-> enter, have |-> have]
       ELSE [events |-> enter \o kids.events
                              \o <<[e |-> "invoke", key |-> k, by |-> BuilderOf(k)]>>,
             have |-> IF services[k].lifecycle = "singleton"
                      THEN kids.have \cup {k} ELSE kids.have]
PostOrderEach(have, ds) ==
    IF ds = <<>> THEN [events |-> <<>>, have |-> have]
    ELSE LET first == PostOrder(have, Head(ds))
             rest == PostOrderEach(first.have, Tail(ds))
         IN [events |-> first.events \o rest.events, have |-> rest.have]

\* C17: a resolve(k) that succeeds enters keys and calls factories in
\* depth-first post-order of the dependency lists, taken in list order: each
\* dependency is resolved in full before the next one is entered, and k's
\* factory or constructor is called last; the instance it builds holds one
\* dependency per key of the list, in list order, each being the instance
\* that resolve returned for that key.
C17_DepthFirstInListOrder ==
    [][\A k \in ShareKeys :
          (IsResolve(lastOp', k) /\ lastRes'.ok)
          => /\ log' = PostOrder({x \in DOMAIN services : ~Walked(x)}, k).events
             /\ Walked(k)
                   => /\ log'[Len(log')] = [e |-> "invoke", key |-> k, by |-> BuilderOf(k)]
                      /\ Len(lastRes'.inst.deps) = Len(services[k].dependencies)
                      /\ \A i \in DOMAIN services[k].dependencies :
                            LET d == services[k].dependencies[i]
                            IN /\ lastRes'.inst.deps[i].key = d
                               /\ lastRes'.inst.deps[i].id < lastRes'.inst.id
                               /\ Registered(d, "singleton")
                                     => lastRes'.inst.deps[i] = Ref(singletons'[d])
                               /\ Registered(d, "transient")
                                     => lastRes'.inst.deps[i].id >= nextId]_vars

\* S has been resolved with nothing cached: R was entered first and built
\* after its own dependency L, then L was entered again, then S was built
C17_Witness ==
    /\ IsResolve(lastOp, "S") /\ SharedGraph /\ lastRes.ok
    /\ Entered(log) = <<"S", "R", "L", "L">>
    /\ log = <<[e |-> "enter", key |-> "S", by |-> ""],
               [e |-> "enter", key |-> "R", by |-> ""],
               [e |-> "enter", key |-> "L", by |-> ""],
               [e |-> "invoke", key |-> "L", by |-> "f1"],
               [e |-> "invoke", key |-> "R", by |-> "f1"],
               [e |-> "enter", key |-> "L", by |-> ""],
               [e |-> "invoke", key |-> "S", by |-> "f1"]>>
    /\ lastRes.inst.deps = <<Ref(singletons["R"]), Ref(singletons["L"])>>

\* resolve called for the first n keys of ds in turn, from the container c,
\* for as long as it returns
RECURSIVE After(_, _, _)
After(c, ds, n) ==
    IF n = 0 THEN Ok(c, NoInst)
    ELSE LET before == After(c, ds, n - 1)
         IN IF before.ok THEN Resolve(before.c, ds[n]) ELSE before

\* C18: when resolve(k) has to build k and the resolve of the i-th key of
\* k's dependency list fails after those before it have returned, resolve(k)
\* fails with that same error (not-registered naming the dependency, when
\* that is what is missing), does nothing after that failure (no later
\* dependency is entered, k's factory is not called) and caches no instance
\* of k.
C18_FailFast ==
    [][\A k \in Keys :
          (IsResolve(lastOp', k) /\ Walked(k))
          => LET ds == services[k].dependencies
                 c == MarkResolving(
                         Logged(Container, [e |-> "enter", key |-> k, by |-> ""]), k)
             IN \A i \in DOMAIN ds :
                   LET failed == After(c, ds, i)
                   IN (After(c, ds, i - 1).ok /\ ~failed.ok)
                      => /\ ~lastRes'.ok
                         /\ lastRes'.err = failed.err
                         /\ ds[i] \notin DOMAIN services
                               => lastRes'.err = [kind |-> "NotRegistered", key |-> ds[i]]
                         /\ log' = failed.c.log
                         /\ Untouched(k)]_vars

\* resolve(A) has failed on the first key of its list, B, which is not
\* registered: the second key was not entered and A was not built
C18_Witness ==
    /\ IsResolve(lastOp, "A") /\ ~lastRes.ok
    /\ "A" \in DOMAIN services /\ services["A"].dependencies = <<"B", "A">>
    /\ "B" \notin DOMAIN services
    /\ lastRes.err = ErrNotRegistered("B")
    /\ Entered(log) = <<"A", "B">> /\ Invocations(log, "A") = 0
    /\ singletons = EmptyMap

\* the factory or the constructor of k throws when it is called
Throws(k) ==
    \/ services[k].factory \notin Builders \cup Givens \cup {None}
    \/ services[k].factory = None /\ services[k].implementation \in {"IThrow", "fnThrow"}

\* C19: when resolve(k) has resolved k's dependencies and k's factory or
\* constructor then throws, resolve(k) fails with the error that was thrown,
\* the error names k, and the factory or constructor has been called once
\* (nothing else was tried).
C19_ConstructionErrorAnnotated ==
    [][\A k \in Keys :
          (/\ IsResolve(lastOp', k) /\ Walked(k) /\ Throws(k)
           /\ After(MarkResolving(Container, k), services[k].dependencies,
                    Len(services[k].dependencies)).ok)
          => /\ ~lastRes'.ok
             /\ lastRes'.err = ErrThrown(BuilderOf(k))
             /\ k \in Mentioned(lastRes'.err)
             /\ Invocations(log', k) = 1]_vars

\* C20: for a key whose entry has both a factory and an implementation,
\* resolve and createWithDependencies call the factory, once, and never the
\* implementation: an instance they build is built by the factory, and when
\* the factory throws they fail with its error.
C20_FactoryWins ==
    [][\A k \in Keys :
          (/\ IsResolve(lastOp', k) \/ IsCreate(lastOp', k)
           /\ k \in DOMAIN services
           /\ services[k].factory # None /\ services[k].implementation # None)
          => /\ \A i \in DOMAIN log' :
                   (log'[i].e = "invoke" /\ log'[i].key = k)
                   => log'[i].by = services[k].factory
             /\ Invocations(log', k) <= 1
             /\ (lastRes'.ok /\ lastRes'.inst.id >= nextId)
                   => /\ lastRes'.inst.by = services[k].factory
                      /\ Invocations(log', k) = 1
             /\ (Invocations(log', k) = 1 /\ Throws(k))
                   => ~lastRes'.ok /\ lastRes'.err = ErrThrown(services[k].factory)]_vars

\* a key registered with a factory and with a class whose constructor
\* throws has been resolved: the factory built the instance
C20_Witness ==
    /\ IsResolve(lastOp, "A") /\ lastRes.ok
    /\ services["A"].factory = "f1" /\ services["A"].implementation = "IThrow"
    /\ lastRes.inst.by = "f1" /\ lastRes.inst.key = "A"
    /\ Invocations(log, "A") = 1

\* the entry of k has no factory and no function as implementation
Unusable(k) ==
    services[k].factory = None /\ services[k].implementation \in {"notfn", None}

\* C21 as claimed: resolve(k) of a key whose entry has neither a factory nor
\* a function as implementation fails with the invalid-registration error
\* naming k, and no cache holds an instance of k afterwards.
C21_InvalidAlwaysReported ==
    [][\A k \in Keys :
          (IsResolve(lastOp', k) /\ k \in DOMAIN services /\ Unusable(k))
          => /\ ~lastRes'.ok
             /\ lastRes'.err = [kind |-> "Invalid", key |-> k]
             /\ \A x \in CachedInstances(singletons', scopedInstances') : x.key # k]_vars

\* C21 as amended: such a resolve(k) returns the instance cached for k when
\* there is one to return; otherwise it fails, with the error of the first
\* dependency that fails, or, once every dependency has been resolved, with
\* the invalid-registration error naming k; in no case is anything called to
\* build k or an instance of k put into a cache.
C21_InvalidReportedAfterDependencies ==
    [][\A k \in Keys :
          (IsResolve(lastOp', k) /\ k \in DOMAIN services /\ Unusable(k))
          => LET ds == services[k].dependencies
                 deps == After(MarkResolving(Container, k), ds, Len(ds))
             IN /\ Untouched(k)
                /\ ~Walked(k)
                      => lastRes'.ok /\ lastRes'.inst = Cached(Container, k, services[k])
                /\ (Walked(k) /\ ~deps.ok)
                      => ~lastRes'.ok /\ lastRes'.err = deps.err
                /\ (Walked(k) /\ deps.ok)
                      => /\ ~lastRes'.ok
                         /\ lastRes'.err = [kind |-> "Invalid", key |-> k]
                         /\ Mentioned(lastRes'.err) = {k}
                         /\ \A i \in DOMAIN ds :
                               \E j \in DOMAIN log' :
                                  log'[j] = [e |-> "enter", key |-> ds[i], by |-> ""]]_vars

\* resolve(A) has failed with the invalid-registration error after its
\* dependency B was entered
C21_Witness ==
    /\ IsResolve(lastOp, "A") /\ ~lastRes.ok
    /\ "A" \in DOMAIN services /\ Unusable("A")
    /\ lastRes.err = ErrInvalid("A")
    /\ Entered(log) = <<"A", "B">>
    /\ Invocations(log, "A") = 0 /\ "A" \notin DOMAIN singletons

\* C22: beginScope makes its argument the active scope and changes no cache;
\* a resolve of a scoped key k changes the cache of no scope but the active
\* one, never returns an instance that another scope caches for k, and
\* returns the instance that the active scope caches for k when it caches
\* one, whatever scopes were active in between.
C22_ScopeSwitchKeepsCaches ==
    [][/\ lastOp'.op = "beginScope"
          => /\ currentScope' = lastOp'.arg
             /\ scopedInstances' = scopedInstances /\ singletons' = singletons
       /\ \A k \in Keys :
            (IsResolve(lastOp', k) /\ Registered(k, "scoped"))
            => /\ \A a \in DOMAIN scopedInstances \ {currentScope} :
                     /\ a \in DOMAIN scopedInstances'
                     /\ scopedInstances'[a] = scopedInstances[a]
                     /\ (lastRes'.ok /\ k \in DOMAIN scopedInstances[a])
                           => lastRes'.inst # scopedInstances[a][k]
               /\ (/\ currentScope \in DOMAIN scopedInstances
                   /\ k \in DOMAIN scopedInstances[currentScope])
                     => /\ lastRes'.ok
                        /\ lastRes'.inst = scopedInstances[currentScope][k]]_vars

\* scope s1 has been made active again after s2: the scoped key resolves to
\* the instance cached in s1 before s2 built its own
C22_Witness ==
    \E k \in Keys :
        /\ IsResolve(lastOp, k) /\ Registered(k, "scoped") /\ lastRes.ok
        /\ currentScope = "s1"
        /\ DOMAIN scopedInstances = {"s1", "s2"}
        /\ k \in DOMAIN scopedInstances["s1"] /\ k \in DOMAIN scopedInstances["s2"]
        /\ lastRes.inst = scopedInstances["s1"][k]
        /\ lastRes.inst.id < scopedInstances["s2"][k].id

\* C23: endScope(), called while the caller has a scope open, removes the
\* cache of the active scope and that one alone, sets the active scope to
\* none, and leaves the registry and the singleton cache as they were, so
\* that a scoped key resolved after the same id is begun again is built anew.
C23_EndScopeDropsActiveScope ==
    [][(lastOp'.op = "endScope" /\ opened # NoScope)
       => /\ currentScope' = NoScope
          /\ scopedInstances' = Del(scopedInstances, currentScope)
          /\ currentScope \notin DOMAIN scopedInstances'
          /\ UNCHANGED <<services, singletons, resolving>>]_vars

\* C24: a step that is not clear() removes no key from the registry and
\* neither removes nor replaces the instance that the singleton cache holds
\* for a key, whether it is a register, a resolve that returns or fails, a
\* beginScope or an endScope; clear() empties both.
C24_OnlyClearRemoves ==
    [][/\ lastOp'.op # "clear"
          => /\ DOMAIN services \subseteq DOMAIN services'
             /\ \A k \in DOMAIN singletons :
                   k \in DOMAIN singletons' /\ singletons'[k] = singletons[k]
       /\ lastOp'.op = "clear"
          => services' = EmptyMap /\ singletons' = EmptyMap]_vars

\* a key whose singleton is cached has been registered again as scoped and
\* resolved to a newer instance, and a scope has been ended: the singleton
\* cache still holds the first instance
C24_Witness ==
    /\ lastOp.op = "endScope"
    /\ "B" \in DOMAIN singletons /\ Registered("B", "scoped")
    /\ given["B"].id > singletons["B"].id
    /\ scopedInstances = EmptyMap

\* C25: resolve(k) fails with CircularDependency only when a cycle is
\* reachable from k; when none is and every reachable key is registered and
\* has a factory or constructor that returns, resolve(k) succeeds, also when
\* a key is listed twice in one dependency list or reached along two paths.
C25_CircularOnlyForCycles ==
    [][\A k \in Keys :
          IsResolve(lastOp', k)
          => /\ (~lastRes'.ok /\ lastRes'.err.kind = "Circular")
                => CycleKeys(k) # {}
             /\ (CycleKeys(k) = {} /\ Sound(k)) => lastRes'.ok]_vars

\* resolve("A") has returned with A listing the transient key B twice: B was
\* entered, built and released twice within the one call
C25_Witness ==
    /\ IsResolve(lastOp, "A") /\ lastRes.ok
    /\ "A" \in DOMAIN services /\ services["A"].dependencies = <<"B", "B">>
    /\ Registered("B", "transient")
    /\ Entered(log) = <<"A", "B", "B">>
    /\ Constructions(log, "B") = 2

\* C26: when resolve(k) fails, no instance that was cached before the call
\* is lost, and every key of k's dependency list whose resolve returned
\* before the failure is cached afterwards with the instance it returned: in
\* the singleton cache when registered singleton, in the open scope's cache
\* when registered scoped and a scope is open. The invalid-registration error
\* of k is raised only after every key of the list has been resolved.
C26_FailureKeepsResolvedDependencies ==
    [][\A k \in Keys :
          (IsResolve(lastOp', k) /\ ~lastRes'.ok)
          => /\ \A x \in DOMAIN singletons :
                   x \in DOMAIN singletons' /\ singletons'[x] = singletons[x]
             /\ \A s \in DOMAIN scopedInstances :
                   /\ s \in DOMAIN scopedInstances'
                   /\ \A x \in DOMAIN scopedInstances[s] :
                         /\ x \in DOMAIN scopedInstances'[s]
                         /\ scopedInstances'[s][x] = scopedInstances[s][x]
             /\ Walked(k)
                => \A i \in DOMAIN services[k].dependencies :
                      LET x == services[k].dependencies[i]
                          got == After(MarkResolving(Container, k),
                                       services[k].dependencies, i)
                      IN got.ok
                         => /\ services[x].lifecycle = "singleton"
                               => /\ x \in DOMAIN singletons'
                                  /\ singletons'[x] = got.inst
                            /\ (services[x].lifecycle = "scoped" /\ opened # NoScope)
                               => /\ opened \in DOMAIN scopedInstances'
                                  /\ x \in DOMAIN scopedInstances'[opened]
                                  /\ scopedInstances'[opened][x] = got.inst
             /\ lastRes'.err = ErrInvalid(k)
                => /\ Walked(k)
                   /\ After(MarkResolving(Container, k), services[k].dependencies,
                            Len(services[k].dependencies)).ok]_vars

\* the instance d, held by a constructed object, is the one the cache of the
\* current scope holds for its key
InCurrentScope(d) ==
    /\ currentScope \in DOMAIN scopedInstances
    /\ d.key \in DOMAIN scopedInstances[currentScope]
    /\ scopedInstances[currentScope][d.key].id = d.id

\* C27: while a singleton S is cached that was constructed with an instance
\* of a scoped key X which the current scope's cache does not hold (its scope
\* was ended or another one begun), resolve(S) returns the cached S, still
\* holding that instance of X, and resolve(X) returns another instance.
C27_SingletonKeepsItsDependencies ==
    [][\A S \in Keys, X \in Keys :
          (/\ Registered(S, "singleton") /\ S \in DOMAIN singletons
           /\ Registered(X, "scoped"))
          => \A i \in DOMAIN singletons[S].deps :
                LET d == singletons[S].deps[i]
                IN (d.key = X /\ ~InCurrentScope(d))
                   => /\ IsResolve(lastOp', S)
                         => /\ lastRes'.ok
                            /\ lastRes'.inst = singletons[S]
                            /\ lastRes'.inst.deps[i] = d
                            /\ singletons'[S] = singletons[S]
                      /\ IsResolve(lastOp', X)
                         => (lastRes'.ok /\ lastRes'.inst.id # d.id)]_vars

\* the singleton A was built in scope s1 with that scope's B; the scope was
\* ended and s2 begun, where resolve(A) has returned the cached A and
\* resolve(B) then a newer B, now cached under s2
C27_Witness ==
    /\ IsResolve(lastOp, "B") /\ lastRes.ok
    /\ Registered("A", "singleton") /\ Registered("B", "scoped")
    /\ "A" \in DOMAIN singletons /\ currentScope = "s2"
    /\ given["A"] = [id |-> singletons["A"].id, scope |-> "s2"]
    /\ "s1" \notin DOMAIN scopedInstances
    /\ "s2" \in DOMAIN scopedInstances /\ "B" \in DOMAIN scopedInstances["s2"]
    /\ scopedInstances["s2"]["B"] = lastRes.inst
    /\ singletons["A"].deps[1].key = "B"
    /\ singletons["A"].deps[1].id < lastRes.inst.id

\* C28: after loadSettings has completed, every service field of the
\* PluginManager refers to the instance that the container resolves for the
\* field's key.
C28_FieldsAreCurrent ==
    (lastOp.op = "loadSettings" /\ lastRes.ok)
    => \A k \in DOMAIN manager.held :
          LET r == Resolve(Container, k)
          IN r.ok /\ manager.held[k] = Ref(r.inst)

\* C29: clear() leaves the active scope as it was, and so does register; in
\* the scope that was active before the clear, as in any open scope, a scoped
\* key that is registered and resolved comes to be cached under that scope,
\* and resolved a second time it is the same instance.
C29_ClearKeepsActiveScope ==
    [][/\ lastOp'.op \in {"clear", "register"} => currentScope' = currentScope
       /\ \A k \in Keys :
             (IsResolve(lastOp', k) /\ Registered(k, "scoped") /\ opened # NoScope)
             => /\ lastRes'.ok
                /\ opened \in DOMAIN scopedInstances'
                /\ k \in DOMAIN scopedInstances'[opened]
                /\ scopedInstances'[opened][k] = lastRes'.inst
                /\ (IsResolve(lastOp, k) /\ lastRes.ok)
                      => lastRes'.inst = lastRes.inst]_vars

\* C30: every scope id is treated alike, the empty string included: once
\* beginScope(scopeId) has made it the active scope, two resolves in a row of
\* a scoped key return the same instance, and endScope() then leaves no
\* cache for scopeId and no active scope.
C30_ScopeIdsUniform ==
    [][\A scopeId \in ScopeIds :
          /\ (lastOp'.op = "beginScope" /\ lastOp'.arg = scopeId)
                => currentScope' = scopeId
          /\ currentScope = scopeId
                => /\ \A k \in Keys :
                         (/\ IsResolve(lastOp, k) /\ IsResolve(lastOp', k)
                          /\ Registered(k, "scoped") /\ lastRes.ok)
                         => (lastRes'.ok /\ lastRes'.inst.id = lastRes.inst.id)
                   /\ lastOp'.op = "endScope"
                         => /\ currentScope' = NoScope
                            /\ scopeId \notin DOMAIN scopedInstances']_vars

====
